---- MODULE Spec2Model ----
(***************************************************************************)
(* Model of the fleet deployment orchestrator (saber-hq/captain).          *)
(*                                                                         *)
(* A run is one invocation of the binary (main.rs: `deploy`, `upgrade`,    *)
(* `init`) or one call of the library entry point workspace::load.  The    *)
(* run reads its environment (files, environment variables, the outcome    *)
(* of each child process) at the point where the code reads it; what it    *)
(* has read is recorded in `seen`.  The archive, the archive directories   *)
(* and the temporary key files live on disk and outlive a run.             *)
(***************************************************************************)
EXTENDS Integers, Sequences, FiniteSets, TLC

VARIABLES
    pc,        \* position of the current run in main_with_result / load
    run,       \* the current run: its number, command line and start snapshot
    seen,      \* what the run has read from its environment so far
    ver,       \* deploy_version once resolved, NoVersion before
    procs,     \* child processes the run has invoked, in order
    exitCode,  \* exit code of the terminated run, -1 while none
    err,       \* the Err(..) main() reports, NoErr if none
    ws,        \* TRUE once load has returned Ok(Workspace)
    tmpFiles,  \* run numbers whose buffer-keypair temp file is on disk
    archive,   \* version -> which run last wrote program.so / idl.json (0: absent)
    archDir,   \* version -> the archive directory exists
    call,      \* a single call of discover / version resolution: inputs and result
    peers      \* the upgrade runs that execute at the same time, each with its position

vars == <<pc, run, seen, ver, procs, exitCode, err, ws, tmpFiles, archive, archDir,
          call, peers>>

None == "none"
\* no version resolved (yet)
NoVersion == [major |-> -1, minor |-> -1, patch |-> -1]

----------------------------------------------------------------------------
(* Bounds *)

\* number of runs in one behaviour
MaxRuns == 1
\* number of directories on the chain from the working directory upward
MaxDepth == 2

----------------------------------------------------------------------------
(* Network (config.rs) *)

Networks == {"testnet", "mainnet", "devnet", "localnet", "debug"}

\* Network::url
url(network) ==
    CASE network = "devnet"   -> "https://api.devnet.solana.com"
      [] network = "testnet"  -> "https://api.testnet.solana.com"
      [] network = "mainnet"  -> "https://api.mainnet-beta.solana.com"
      [] network = "localnet" -> "http://127.0.0.1:8899"
      [] network = "debug"    -> "http://34.90.18.145:8899"

\* the `url` override of a NetworkConfig: Option<String>
UrlOverrides == {None, "http://rpc.example:8899"}

\* Workspace::network_url: the override, or else the network's default
network_url(cfgUrl, network) ==
    IF cfgUrl # None THEN cfgUrl ELSE url(network)

----------------------------------------------------------------------------
(* Versions *)

\* a semver::Version
Versions == { [major |-> 1, minor |-> 0, patch |-> 0],
              [major |-> 1, minor |-> 1, patch |-> 0] }

\* the version string of a manifest, as its dot-separated numeric fields
VersionTexts == { <<1, 0, 0>>, <<1, 1, 0>>, <<1, 0>> }

\* Version::parse: three numeric fields, or an error
VersionParse(text) ==
    IF Len(text) = 3
    THEN [ok |-> TRUE,
          version |-> [major |-> text[1], minor |-> text[2], patch |-> text[3]]]
    ELSE [ok |-> FALSE, version |-> NoVersion]

\* a Cargo.toml on disk: absent, not parseable, without [package], or with one
Manifests ==
    { [kind |-> k, version |-> <<>>] : k \in {"missing", "malformed", "nopkg"} }
    \cup { [kind |-> "pkg", version |-> t] : t \in VersionTexts }

NoErr == [msg |-> None, path |-> None]
Error(msg, path) == [msg |-> msg, path |-> path]

\* main.rs, lines 83-100: the version of a deploy/upgrade run
main_deploy_version(explicit, m1) ==
    IF explicit # NoVersion THEN [ok |-> TRUE, version |-> explicit, err |-> NoErr]
    ELSE IF m1.kind \in {"missing", "malformed"}
         THEN [ok |-> FALSE, version |-> NoVersion,
               err |-> Error("Program Cargo.toml not found", None)]
    ELSE IF m1.kind = "nopkg"
         THEN [ok |-> FALSE, version |-> NoVersion, err |-> Error("invalid package", None)]
    ELSE IF ~VersionParse(m1.version).ok
         THEN [ok |-> FALSE, version |-> NoVersion, err |-> Error("invalid version", None)]
    ELSE [ok |-> TRUE, version |-> VersionParse(m1.version).version, err |-> NoErr]

\* workspace.rs get_program_version: programs/<program>/Cargo.toml if it
\* exists, else the path with underscores replaced by hyphens
get_program_version(m1, m2) ==
    LET m == IF m1.kind # "missing" THEN m1 ELSE m2 IN
    IF m.kind \in {"missing", "malformed"}
    THEN [ok |-> FALSE, version |-> NoVersion,
          err |-> Error("Program Cargo.toml not found at paths", "manifest")]
    ELSE IF m.kind = "nopkg"
         THEN [ok |-> FALSE, version |-> NoVersion, err |-> Error("invalid package", None)]
    ELSE IF ~VersionParse(m.version).ok
         THEN [ok |-> FALSE, version |-> NoVersion, err |-> Error("invalid version", None)]
    ELSE [ok |-> TRUE, version |-> VersionParse(m.version).version, err |-> NoErr]

\* a slip: a manifest that declares a version wins over the explicit one
get_deploy_version_manifest_first(explicit, m1, m2) ==
    IF get_program_version(m1, m2).ok THEN get_program_version(m1, m2)
    ELSE IF explicit # NoVersion THEN [ok |-> TRUE, version |-> explicit, err |-> NoErr]
    ELSE get_program_version(m1, m2)

\* workspace.rs get_deploy_version
get_deploy_version(explicit, m1, m2) ==
    IF explicit # NoVersion THEN [ok |-> TRUE, version |-> explicit, err |-> NoErr]
    ELSE get_program_version(m1, m2)

----------------------------------------------------------------------------
(* Config discovery (config.rs) *)

\* a directory of the chain: no Fleet.toml, a Fleet.toml that parses with
\* or without a readable sibling Cargo.toml, or a Fleet.toml that does not parse
DirStates == {"none", "good", "nomanifest", "bad"}

Chains == UNION { [1..n -> DirStates] : n \in 1..MaxDepth }

\* Config::discover from directory i of the chain, nearest first
RECURSIVE discover_from(_, _)
discover_from(chain, i) ==
    IF i > Len(chain)
    THEN [ok |-> FALSE, root |-> 0, err |-> Error("Cargo.toml and Fleet.toml not found", None)]
    ELSE IF chain[i] = "bad"
         THEN [ok |-> FALSE, root |-> i, err |-> Error("Unable to deserialize config", None)]
    ELSE IF chain[i] = "nomanifest"
         THEN [ok |-> FALSE, root |-> i, err |-> Error("Cargo.toml of the workspace", None)]
    ELSE IF chain[i] = "good"
         THEN [ok |-> TRUE, root |-> i, err |-> NoErr]
    ELSE discover_from(chain, i + 1)

\* a slip: the walk starts at the outermost directory
RECURSIVE discover_down(_, _)
discover_down(chain, i) ==
    IF i < 1
    THEN [ok |-> FALSE, root |-> 0, err |-> Error("Cargo.toml and Fleet.toml not found", None)]
    ELSE IF chain[i] = "bad"
         THEN [ok |-> FALSE, root |-> i, err |-> Error("Unable to deserialize config", None)]
    ELSE IF chain[i] = "nomanifest"
         THEN [ok |-> FALSE, root |-> i, err |-> Error("Cargo.toml of the workspace", None)]
    ELSE IF chain[i] = "good"
         THEN [ok |-> TRUE, root |-> i, err |-> NoErr]
    ELSE discover_down(chain, i - 1)

discover_outermost(chain) == discover_down(chain, Len(chain))

discover(chain) == discover_from(chain, 1)

----------------------------------------------------------------------------
(* Paths (workspace.rs, config.rs) *)

\* a slip: the third check reports the idl path
check_paths_wrong_display(bin, idl, id) ==
    IF ~bin THEN [ok |-> FALSE, err |-> Error("Program bin path", "bin")]
    ELSE IF ~idl THEN [ok |-> FALSE, err |-> Error("Program idl path", "idl")]
    ELSE IF ~id THEN [ok |-> FALSE, err |-> Error("Program idl path", "idl")]
    ELSE [ok |-> TRUE, err |-> NoErr]

\* check_and_get_program_paths: bin, idl, id checked in this order
check_and_get_program_paths(bin, idl, id) ==
    IF ~bin THEN [ok |-> FALSE, err |-> Error("Program bin path", "bin")]
    ELSE IF ~idl THEN [ok |-> FALSE, err |-> Error("Program idl path", "idl")]
    ELSE IF ~id THEN [ok |-> FALSE, err |-> Error("Program id path", "id")]
    ELSE [ok |-> TRUE, err |-> NoErr]

\* a slip: archived only when both files are there
exist_both(a) == a.bin # 0 /\ a.idl # 0

\* ArtifactPaths::exist, on the archive entry of one version
exist(a) == a.bin # 0 \/ a.idl # 0

----------------------------------------------------------------------------
(* Child processes (command.rs, main.rs) *)

\* exit codes a child is observed to return
ExitCodes == {0, 1, 7}

\* how an invocation ends: the child exits with a code, the child ends
\* without a code (killed by a signal), or it could not be spawned
Outcomes ==
    { [kind |-> "exit", code |-> c] : c \in ExitCodes }
    \cup { [kind |-> "signal", code |-> -1], [kind |-> "spawn", code |-> -1] }

\* ExitStatus::success
success(out) == out.kind = "exit" /\ out.code = 0

\* exit.status.code().unwrap_or(1)
code_unwrap_or_1(out) == IF out.kind = "exit" THEN out.code ELSE 1

\* a slip: a failed child always ends the run with 1
exec_exit_1(out) ==
    IF out.kind = "spawn" THEN [act |-> "err", code |-> 1]
    ELSE IF ~success(out) THEN [act |-> "exit", code |-> 1]
    ELSE [act |-> "continue", code |-> 0]

\* command::exec (inlined at every step of main.rs): Err if the child could
\* not be spawned, process::exit with the child's code if it failed,
\* else go on
exec(out) ==
    IF out.kind = "spawn" THEN [act |-> "err", code |-> 1]
    ELSE IF ~success(out) THEN [act |-> "exit", code |-> code_unwrap_or_1(out)]
    ELSE [act |-> "continue", code |-> 0]

\* Command::new("solana") as main.rs builds it: no --url argument
solana(sub, keypair, buffer) ==
    [tool |-> "solana", sub |-> sub, url |-> None, cluster |-> None,
     keypair |-> keypair, buffer |-> buffer]

\* Command::new("anchor") as main.rs builds it
anchor(sub, network) ==
    [tool |-> "anchor", sub |-> sub, url |-> None, cluster |-> network,
     keypair |-> "deployer", buffer |-> 0]

\* Command::new("cp")
cp(what) ==
    [tool |-> "cp", sub |-> what, url |-> None, cluster |-> None,
     keypair |-> None, buffer |-> 0]

\* the invocation with its outcome, as logged in procs
Invoked(cmd, out) ==
    [tool |-> cmd.tool, sub |-> cmd.sub, url |-> cmd.url, cluster |-> cmd.cluster,
     keypair |-> cmd.keypair, buffer |-> cmd.buffer, out |-> out]

----------------------------------------------------------------------------
(* The order of the steps of a run *)

\* main_with_result, SubCommand::Deploy
DeploySteps ==
    << "discover", "version", "paths", "network", "deployer", "mkdir", "keypair",
       "show", "deploy", "setauth", "reshow", "idlinit", "idlauth", "cpbin", "cpidl" >>

\* a slip: the environment variable is read after the archive directory is made
UpgradeSteps_env_late ==
    << "discover", "version", "paths", "network", "deployer", "mkdir", "env",
       "guard", "keypair", "show", "tmpfile", "writebuf", "setbufauth", "deploybuf",
       "reshow", "idlwrite", "cpbin", "cpidl" >>

\* a slip: the buffer is deployed before its authority is set
UpgradeSteps_deploy_early ==
    << "env", "discover", "version", "paths", "network", "deployer", "mkdir",
       "guard", "keypair", "show", "tmpfile", "writebuf", "deploybuf", "setbufauth",
       "reshow", "idlwrite", "cpbin", "cpidl" >>

\* main_with_result, SubCommand::Upgrade
UpgradeSteps ==
    << "env", "discover", "version", "paths", "network", "deployer", "mkdir",
       "guard", "keypair", "show", "tmpfile", "writebuf", "setbufauth", "deploybuf",
       "reshow", "idlwrite", "cpbin", "cpidl" >>

\* a slip: the deployer key is checked before the network is looked up
LoadSteps_deployer_first ==
    << "discover", "version", "paths", "deployer", "network", "mkdir", "keypair" >>

\* workspace::load
LoadSteps ==
    << "discover", "version", "paths", "network", "deployer", "mkdir", "keypair" >>

Commands == {"init", "deploy", "upgrade", "load"}

Steps(cmd) ==
    CASE cmd = "deploy"  -> DeploySteps
      [] cmd = "upgrade" -> UpgradeSteps
      [] cmd = "load"    -> LoadSteps
      [] cmd = "init"    -> << >>

\* the step that follows step s, "end" after the last one
After(cmd, s) ==
    LET st == Steps(cmd)
        i  == CHOOSE k \in 1..Len(st) : st[k] = s
    IN  IF i = Len(st) THEN "end" ELSE st[i + 1]

First(cmd) == IF Steps(cmd) = << >> THEN "end" ELSE Steps(cmd)[1]

----------------------------------------------------------------------------
(* State *)

Unread == "unread"
UnreadManifest == [kind |-> Unread, version |-> << >>]

NothingSeen ==
    [env |-> Unread, discover |-> Unread, anchor |-> Unread,
     m1 |-> UnreadManifest, m2 |-> UnreadManifest,
     bin |-> Unread, idl |-> Unread, id |-> Unread,
     net |-> Unread, cfgUrl |-> Unread, deployer |-> Unread,
     mkdir |-> Unread, keypair |-> Unread, tmp |-> Unread]

YesNo(b) == IF b THEN "yes" ELSE "no"

NoFile == [bin |-> 0, idl |-> 0]
\* archive entries: 0 absent, n > 0 written by run n, -1 present before the first run

NoRun ==
    [no |-> 0, cmd |-> None, network |-> None, version |-> NoVersion,
     archive0 |-> [v \in Versions |-> NoFile],
     archDir0 |-> [v \in Versions |-> FALSE],
     tmp0 |-> {}]

\* no call of a function on its own
NoCall == [fn |-> None]
\* no runs side by side
NoPeers == << >>

\* Before the first run nothing has been archived by this tool; the archive
\* of one version may hold files left there earlier.
Init ==
    /\ call = NoCall
    /\ peers = NoPeers
    /\ pc = "idle"
    /\ run = NoRun
    /\ seen = NothingSeen
    /\ ver = NoVersion
    /\ procs = << >>
    /\ exitCode = -1
    /\ err = NoErr
    /\ ws = FALSE
    /\ tmpFiles = {}
    /\ \E v \in Versions, b \in {0, -1}, i \in {0, -1}, d \in BOOLEAN :
          /\ archive = [w \in Versions |-> IF w = v THEN [bin |-> b, idl |-> i] ELSE NoFile]
          /\ archDir = [w \in Versions |-> w = v /\ (d \/ b # 0 \/ i # 0)]

\* Opts::parse: a new invocation with its command line
Start(cmd, network, version) ==
    /\ pc \in {"idle", "done"}
    /\ run.no < MaxRuns
    /\ run' = [no |-> run.no + 1, cmd |-> cmd, network |-> network, version |-> version,
               archive0 |-> archive, archDir0 |-> archDir, tmp0 |-> tmpFiles]
    /\ pc' = First(cmd)
    /\ seen' = NothingSeen
    /\ ver' = NoVersion
    /\ procs' = << >>
    /\ exitCode' = -1
    /\ err' = NoErr
    /\ ws' = FALSE
    /\ UNCHANGED <<call, peers, tmpFiles, archive, archDir>>

\* `?` / return Err(e): the error reaches main(), which exits with 1; the
\* locals of main_with_result are dropped, the NamedTempFile among them
Return(e) ==
    /\ pc' = "done"
    /\ err' = e
    /\ exitCode' = IF run.cmd = "load" THEN -1 ELSE 1
    /\ tmpFiles' = tmpFiles \ {run.no}

\* std::process::exit(c): the process ends at once, no destructor runs
ProcessExit(c) ==
    /\ pc' = "done"
    /\ exitCode' = c
    /\ UNCHANGED <<err, tmpFiles>>

\* the step is passed
Goto(s) ==
    /\ pc' = After(run.cmd, s)
    /\ UNCHANGED <<err, exitCode, tmpFiles>>

\* invoke a child process and treat its outcome as command::exec does
Exec(s, cmd) ==
    \E out \in Outcomes :
        /\ procs' = Append(procs, Invoked(cmd, out))
        /\ CASE exec(out).act = "err"      -> Return(Error("Error deploying", None))
             [] exec(out).act = "exit"     -> ProcessExit(exec(out).code)
             [] exec(out).act = "continue" -> Goto(s)

----------------------------------------------------------------------------
(* Preconditions: main.rs 81-152 (deploy), 280-360 (upgrade); workspace::load *)

\* upgrade: env::var("UPGRADE_AUTHORITY_KEYPAIR")
EnvCheck ==
    /\ pc = "env"
    /\ \E set \in BOOLEAN :
          /\ seen' = [seen EXCEPT !.env = YesNo(set)]
          /\ IF set THEN Goto("env")
             ELSE Return(Error("Must set UPGRADE_AUTHORITY_KEYPAIR environment variable.", None))
    /\ UNCHANGED <<call, peers, run, ver, procs, ws, archive, archDir>>

\* Config::discover()?; the root found does or does not hold Anchor.toml
Discover ==
    /\ pc = "discover"
    /\ \E chain \in Chains, a \in BOOLEAN :
          LET r == discover(chain) IN
          IF r.ok
          THEN /\ seen' = [seen EXCEPT !.discover = "ok", !.anchor = YesNo(a)]
               /\ Goto("discover")
          ELSE /\ seen' = [seen EXCEPT !.discover = r.err.msg]
               /\ Return(r.err)
    /\ UNCHANGED <<call, peers, run, ver, procs, ws, archive, archDir>>

\* the deploy version: the inline match of main.rs, get_deploy_version in load
ResolveVersion ==
    /\ pc = "version"
    /\ \E m1 \in Manifests, m2 \in Manifests :
          LET explicit == run.version
              read1 == explicit = NoVersion
              read2 == read1 /\ run.cmd = "load" /\ m1.kind = "missing"
              r == IF run.cmd = "load"
                   THEN get_deploy_version(explicit, m1, m2)
                   ELSE main_deploy_version(explicit, m1)
          IN  /\ seen' = [seen EXCEPT !.m1 = IF read1 THEN m1 ELSE UnreadManifest,
                                      !.m2 = IF read2 THEN m2 ELSE UnreadManifest]
              /\ ver' = r.version
              /\ IF r.ok THEN Goto("version") ELSE Return(r.err)
    /\ UNCHANGED <<call, peers, run, procs, ws, archive, archDir>>

\* the three required paths
CheckPaths ==
    /\ pc = "paths"
    /\ \E bin \in BOOLEAN, idl \in BOOLEAN, id \in BOOLEAN :
          LET r == check_and_get_program_paths(bin, idl, id) IN
          /\ seen' = [seen EXCEPT !.bin = YesNo(bin), !.idl = YesNo(idl), !.id = YesNo(id)]
          /\ IF r.ok THEN Goto("paths") ELSE Return(r.err)
    /\ UNCHANGED <<call, peers, run, ver, procs, ws, archive, archDir>>

\* Config::network_config: the entry of the `networks` table, if there is one
network_config(present) ==
    IF present THEN [ok |-> TRUE, err |-> NoErr]
    ELSE [ok |-> FALSE, err |-> Error("network not found", None)]

NetworkLookup ==
    /\ pc = "network"
    /\ \E present \in BOOLEAN, u \in UrlOverrides :
          LET r == network_config(present) IN
          IF r.ok
          THEN /\ seen' = [seen EXCEPT !.net = "yes", !.cfgUrl = u]
               /\ Goto("network")
          ELSE /\ seen' = [seen EXCEPT !.net = "no"]
               /\ Return(r.err)
    /\ UNCHANGED <<call, peers, run, ver, procs, ws, archive, archDir>>

\* the error of a missing deployer key file: main.rs reports it as the
\* program id path, load as the deployer path
deployer_missing(cmd) ==
    IF cmd = "load" THEN Error("Deployer path", "deployer")
    ELSE Error("Program id path", "id")

CheckDeployer ==
    /\ pc = "deployer"
    /\ \E there \in BOOLEAN :
          /\ seen' = [seen EXCEPT !.deployer = YesNo(there)]
          /\ IF there THEN Goto("deployer") ELSE Return(deployer_missing(run.cmd))
    /\ UNCHANGED <<call, peers, run, ver, procs, ws, archive, archDir>>

\* fs::create_dir_all(artifact_paths.root)?
CreateArchiveDir ==
    /\ pc = "mkdir"
    /\ \E ok \in (IF archDir[ver] THEN {TRUE} ELSE BOOLEAN) :
          /\ seen' = [seen EXCEPT !.mkdir = YesNo(ok)]
          /\ IF ok
             THEN /\ archDir' = [archDir EXCEPT ![ver] = TRUE]
                  /\ Goto("mkdir")
             ELSE /\ UNCHANGED archDir
                  /\ Return(Error("create_dir_all", "archive"))
    /\ UNCHANGED <<call, peers, run, ver, procs, ws, archive>>

\* upgrade: the version must not be archived yet
ArchiveGuard ==
    /\ pc = "guard"
    /\ IF exist(archive[ver])
       THEN Return(Error("Program artifacts already exist for this version.", None))
       ELSE Goto("guard")
    /\ UNCHANGED <<call, peers, run, seen, ver, procs, ws, archive, archDir>>

\* read_keypair_file(&program_id_path)
ReadKeypair ==
    /\ pc = "keypair"
    /\ \E ok \in BOOLEAN :
          /\ seen' = [seen EXCEPT !.keypair = YesNo(ok)]
          /\ IF ok THEN Goto("keypair") ELSE Return(Error("could not read kp file", "id"))
    /\ UNCHANGED <<call, peers, run, ver, procs, ws, archive, archDir>>

----------------------------------------------------------------------------
(* Deploy: main.rs 154-273 *)

\* a slip: no short-circuit, the first query is only informative
show_deploy_no_short_circuit(out) ==
    IF out.kind = "spawn" THEN [act |-> "err", code |-> 1]
    ELSE [act |-> "continue", code |-> 0]

\* the first `program show` of deploy: a program that is there ends the run
\* with the child's code, a program that is not lets it go on
show_deploy(out) ==
    IF out.kind = "spawn" THEN [act |-> "err", code |-> 1]
    ELSE IF success(out) THEN [act |-> "exit", code |-> code_unwrap_or_1(out)]
    ELSE [act |-> "continue", code |-> 0]

DeployShow ==
    /\ pc = "show" /\ run.cmd = "deploy"
    /\ \E out \in Outcomes :
          /\ procs' = Append(procs, Invoked(solana("program show", None, 0), out))
          /\ CASE show_deploy(out).act = "err"      -> Return(Error("Error deploying", None))
               [] show_deploy(out).act = "exit"     -> ProcessExit(show_deploy(out).code)
               [] show_deploy(out).act = "continue" -> Goto("show")
    /\ UNCHANGED <<call, peers, run, seen, ver, ws, archive, archDir>>

DeployProgram ==
    /\ pc = "deploy"
    /\ Exec("deploy", solana("program deploy", "deployer", 0))
    /\ UNCHANGED <<call, peers, run, seen, ver, ws, archive, archDir>>

SetUpgradeAuthority ==
    /\ pc = "setauth"
    /\ Exec("setauth", solana("program set-upgrade-authority", "deployer", 0))
    /\ UNCHANGED <<call, peers, run, seen, ver, ws, archive, archDir>>

DeployReShow ==
    /\ pc = "reshow" /\ run.cmd = "deploy"
    /\ Exec("reshow", solana("program show", None, 0))
    /\ UNCHANGED <<call, peers, run, seen, ver, ws, archive, archDir>>

IdlInit ==
    /\ pc = "idlinit"
    /\ Exec("idlinit", anchor("idl init", run.network))
    /\ UNCHANGED <<call, peers, run, seen, ver, ws, archive, archDir>>

IdlSetAuthority ==
    /\ pc = "idlauth"
    /\ Exec("idlauth", anchor("idl set-authority", run.network))
    /\ UNCHANGED <<call, peers, run, seen, ver, ws, archive, archDir>>

\* cp <build output> <archive path>: a cp that exits 0 has written the file
Copy(s, file) ==
    /\ Exec(s, cp(file))
    /\ archive' = IF success(procs'[Len(procs')].out)
                  THEN [archive EXCEPT ![ver][file] = run.no]
                  ELSE archive
    /\ UNCHANGED <<call, peers, run, seen, ver, ws, archDir>>

DeployCopyBin == pc = "cpbin" /\ run.cmd = "deploy" /\ Copy("cpbin", "bin")

DeployCopyIdl == pc = "cpidl" /\ run.cmd = "deploy" /\ Copy("cpidl", "idl")

----------------------------------------------------------------------------
(* Upgrade: main.rs 362-497 *)

UpgradeShow ==
    /\ pc = "show" /\ run.cmd = "upgrade"
    /\ Exec("show", solana("program show", None, 0))
    /\ UNCHANGED <<call, peers, run, seen, ver, ws, archive, archDir>>

\* the one-time buffer key of a run, fresh for every run
buffer_key(r) == r.no

\* NamedTempFile::new()? and write_keypair(..)?: the file is on disk once
\* created; an error of write_keypair returns and so drops (removes) it
MakeTempFile ==
    /\ pc = "tmpfile"
    /\ \E res \in {"ok", "nofile", "nowrite"} :
          /\ seen' = [seen EXCEPT !.tmp = res]
          /\ CASE res = "ok" ->
                    /\ tmpFiles' = tmpFiles \cup {run.no}
                    /\ pc' = After(run.cmd, "tmpfile")
                    /\ UNCHANGED <<err, exitCode>>
               [] res = "nofile" -> Return(Error("NamedTempFile::new", None))
               [] res = "nowrite" -> Return(Error("could not generate temp buffer keypair", None))
    /\ UNCHANGED <<call, peers, run, ver, procs, ws, archive, archDir>>

WriteBuffer ==
    /\ pc = "writebuf"
    /\ Exec("writebuf", solana("program write-buffer", "deployer", buffer_key(run)))
    /\ UNCHANGED <<call, peers, run, seen, ver, ws, archive, archDir>>

SetBufferAuthority ==
    /\ pc = "setbufauth"
    /\ Exec("setbufauth", solana("program set-buffer-authority", "deployer", buffer_key(run)))
    /\ UNCHANGED <<call, peers, run, seen, ver, ws, archive, archDir>>

DeployBuffer ==
    /\ pc = "deploybuf"
    /\ Exec("deploybuf", solana("program deploy --buffer", "UPGRADE_AUTHORITY_KEYPAIR", buffer_key(run)))
    /\ UNCHANGED <<call, peers, run, seen, ver, ws, archive, archDir>>

UpgradeReShow ==
    /\ pc = "reshow" /\ run.cmd = "upgrade"
    /\ Exec("reshow", solana("program show", None, 0))
    /\ UNCHANGED <<call, peers, run, seen, ver, ws, archive, archDir>>

IdlWriteBuffer ==
    /\ pc = "idlwrite"
    /\ Exec("idlwrite", anchor("idl write-buffer", run.network))
    /\ UNCHANGED <<call, peers, run, seen, ver, ws, archive, archDir>>

UpgradeCopyBin == pc = "cpbin" /\ run.cmd = "upgrade" /\ Copy("cpbin", "bin")

UpgradeCopyIdl == pc = "cpidl" /\ run.cmd = "upgrade" /\ Copy("cpidl", "idl")

----------------------------------------------------------------------------
(* The end of a run *)

\* Ok(()) of main_with_result (exit code 0), Ok(Workspace) of load; the
\* locals are dropped
Finish ==
    /\ pc = "end"
    /\ pc' = "done"
    /\ exitCode' = IF run.cmd = "load" THEN -1 ELSE 0
    /\ ws' = (run.cmd = "load")
    /\ tmpFiles' = tmpFiles \ {run.no}
    /\ UNCHANGED <<call, peers, run, seen, ver, procs, err, archive, archDir>>

Begin == \E cmd \in Commands, n \in Networks, v \in Versions \cup {NoVersion} : Start(cmd, n, v)

Next ==
    \/ Begin
    \/ EnvCheck \/ Discover \/ ResolveVersion \/ CheckPaths \/ NetworkLookup
    \/ CheckDeployer \/ CreateArchiveDir \/ ArchiveGuard \/ ReadKeypair
    \/ DeployShow \/ DeployProgram \/ SetUpgradeAuthority \/ DeployReShow
    \/ IdlInit \/ IdlSetAuthority \/ DeployCopyBin \/ DeployCopyIdl
    \/ UpgradeShow \/ MakeTempFile \/ WriteBuffer \/ SetBufferAuthority
    \/ DeployBuffer \/ UpgradeReShow \/ IdlWriteBuffer
    \/ UpgradeCopyBin \/ UpgradeCopyIdl
    \/ Finish

Spec == Init /\ [][Next]_vars

----------------------------------------------------------------------------
(* Single calls of Config::discover and of the version resolution, on every
   state of the directories and manifests they read *)

NoFound == [ok |-> FALSE, root |-> 0, err |-> NoErr]
NoResolved == [ok |-> FALSE, version |-> NoVersion, err |-> NoErr]

InitCalls ==
    /\ pc = "idle"
    /\ run = NoRun
    /\ seen = NothingSeen
    /\ ver = NoVersion
    /\ procs = << >>
    /\ exitCode = -1
    /\ err = NoErr
    /\ ws = FALSE
    /\ tmpFiles = {}
    /\ archive = [w \in Versions |-> NoFile]
    /\ archDir = [w \in Versions |-> FALSE]
    /\ peers = NoPeers
    /\ \E chain \in Chains, explicit \in Versions \cup {NoVersion},
          m1 \in Manifests, m2 \in Manifests :
          call = [fn |-> "pending", chain |-> chain, explicit |-> explicit,
                  m1 |-> m1, m2 |-> m2, found |-> NoFound, resolved |-> NoResolved]

\* Config::discover() with call.chain as the working directory and its ancestors
CallDiscover ==
    /\ call.fn = "pending"
    /\ call' = [call EXCEPT !.fn = "discover", !.found = discover(call.chain)]
    /\ UNCHANGED <<pc, run, seen, ver, procs, exitCode, err, ws, tmpFiles, archive,
                   archDir, peers>>

\* get_deploy_version(program, root, version) of workspace.rs
CallGetDeployVersion ==
    /\ call.fn = "pending"
    /\ call' = [call EXCEPT !.fn = "get_deploy_version",
                            !.resolved = get_deploy_version(call.explicit, call.m1, call.m2)]
    /\ UNCHANGED <<pc, run, seen, ver, procs, exitCode, err, ws, tmpFiles, archive,
                   archDir, peers>>

\* the version resolution that main.rs does inline
CallMainDeployVersion ==
    /\ call.fn = "pending"
    /\ call' = [call EXCEPT !.fn = "main_deploy_version",
                            !.resolved = main_deploy_version(call.explicit, call.m1)]
    /\ UNCHANGED <<pc, run, seen, ver, procs, exitCode, err, ws, tmpFiles, archive,
                   archDir, peers>>

NextCalls == CallDiscover \/ CallGetDeployVersion \/ CallMainDeployVersion

SpecCalls == InitCalls /\ [][NextCalls]_vars

----------------------------------------------------------------------------
(* Two upgrade runs of the same program and version side by side: separate
   processes that share the archive on disk.  Both have passed the checks
   of main.rs 280-350 and stand before the archive guard. *)

Peers == {1, 2}

\* the child process of a step of the upgrade arm
upgrade_child(s, no, network) ==
    CASE s = "show"       -> solana("program show", None, 0)
      [] s = "writebuf"   -> solana("program write-buffer", "deployer", buffer_key([no |-> no]))
      [] s = "setbufauth" -> solana("program set-buffer-authority", "deployer", buffer_key([no |-> no]))
      [] s = "deploybuf"  -> solana("program deploy --buffer", "UPGRADE_AUTHORITY_KEYPAIR",
                                    buffer_key([no |-> no]))
      [] s = "reshow"     -> solana("program show", None, 0)
      [] s = "idlwrite"   -> anchor("idl write-buffer", network)
      [] s = "cpbin"      -> cp("bin")
      [] s = "cpidl"      -> cp("idl")

ChildSteps == {"show", "writebuf", "setbufauth", "deploybuf", "reshow", "idlwrite"}
CopySteps == {"cpbin", "cpidl"}

InitPeers ==
    /\ pc = "idle"
    /\ run = [NoRun EXCEPT !.cmd = "upgrade", !.network = "devnet"]
    /\ seen = NothingSeen
    /\ \E v \in Versions : ver = v
    /\ procs = << >>
    /\ exitCode = -1
    /\ err = NoErr
    /\ ws = FALSE
    /\ tmpFiles = {}
    /\ archive = [w \in Versions |-> NoFile]
    /\ archDir = [w \in Versions |-> w = ver]
    /\ call = NoCall
    /\ peers = [p \in Peers |->
                  [pc |-> "guard", procs |-> << >>, exitCode |-> -1, err |-> NoErr,
                   checked |-> FALSE, saw |-> NoFile]]

\* the peer goes on to the step after s
PeerGoto(p, s, log) ==
    /\ peers' = [peers EXCEPT ![p].pc = After("upgrade", s), ![p].procs = log]
    /\ UNCHANGED tmpFiles

\* return Err(e): main exits with 1 after the locals were dropped
PeerReturn(p, e, log) ==
    /\ peers' = [peers EXCEPT ![p].pc = "done", ![p].err = e, ![p].exitCode = 1,
                              ![p].procs = log]
    /\ tmpFiles' = tmpFiles \ {p}

\* std::process::exit(c)
PeerProcessExit(p, c, log) ==
    /\ peers' = [peers EXCEPT ![p].pc = "done", ![p].exitCode = c, ![p].procs = log]
    /\ UNCHANGED tmpFiles

\* main.rs 352-354: the guard reads the archive as it is now
PeerGuard(p) ==
    /\ peers[p].pc = "guard"
    /\ IF exist(archive[ver])
       THEN /\ peers' = [peers EXCEPT ![p].pc = "done", ![p].exitCode = 1,
                                      ![p].err = Error("Program artifacts already exist for this version.", None),
                                      ![p].checked = TRUE, ![p].saw = archive[ver]]
            /\ tmpFiles' = tmpFiles \ {p}
       ELSE /\ peers' = [peers EXCEPT ![p].pc = After("upgrade", "guard"),
                                      ![p].checked = TRUE, ![p].saw = archive[ver]]
            /\ UNCHANGED tmpFiles
    /\ UNCHANGED <<pc, run, seen, ver, procs, exitCode, err, ws, archive, archDir, call>>

PeerReadKeypair(p) ==
    /\ peers[p].pc = "keypair"
    /\ \E ok \in BOOLEAN :
          IF ok THEN PeerGoto(p, "keypair", peers[p].procs)
          ELSE PeerReturn(p, Error("could not read kp file", "id"), peers[p].procs)
    /\ UNCHANGED <<pc, run, seen, ver, procs, exitCode, err, ws, archive, archDir, call>>

PeerMakeTempFile(p) ==
    /\ peers[p].pc = "tmpfile"
    /\ \E res \in {"ok", "nofile", "nowrite"} :
          CASE res = "ok" ->
                 /\ peers' = [peers EXCEPT ![p].pc = After("upgrade", "tmpfile")]
                 /\ tmpFiles' = tmpFiles \cup {p}
            [] res = "nofile" -> PeerReturn(p, Error("NamedTempFile::new", None), peers[p].procs)
            [] res = "nowrite" ->
                 PeerReturn(p, Error("could not generate temp buffer keypair", None), peers[p].procs)
    /\ UNCHANGED <<pc, run, seen, ver, procs, exitCode, err, ws, archive, archDir, call>>

\* a child of the peer, treated as command::exec does
PeerExec(p, s) ==
    \E out \in Outcomes :
        LET log == Append(peers[p].procs, Invoked(upgrade_child(s, p, run.network), out)) IN
        /\ CASE exec(out).act = "err"      -> PeerReturn(p, Error("Error deploying", None), log)
             [] exec(out).act = "exit"     -> PeerProcessExit(p, exec(out).code, log)
             [] exec(out).act = "continue" -> PeerGoto(p, s, log)
        /\ archive' = IF s \in CopySteps /\ success(out)
                      THEN [archive EXCEPT ![ver][upgrade_child(s, p, run.network).sub] = p]
                      ELSE archive

PeerChild(p) ==
    /\ peers[p].pc \in ChildSteps
    /\ PeerExec(p, peers[p].pc)
    /\ UNCHANGED <<pc, run, seen, ver, procs, exitCode, err, ws, archDir, call>>

PeerCopy(p) ==
    /\ peers[p].pc \in CopySteps
    /\ PeerExec(p, peers[p].pc)
    /\ UNCHANGED <<pc, run, seen, ver, procs, exitCode, err, ws, archDir, call>>

\* Ok(()): exit code 0, the locals are dropped
PeerFinish(p) ==
    /\ peers[p].pc = "end"
    /\ peers' = [peers EXCEPT ![p].pc = "done", ![p].exitCode = 0]
    /\ tmpFiles' = tmpFiles \ {p}
    /\ UNCHANGED <<pc, run, seen, ver, procs, exitCode, err, ws, archive, archDir, call>>

NextPeers ==
    \E p \in Peers :
        \/ PeerGuard(p) \/ PeerReadKeypair(p) \/ PeerMakeTempFile(p)
        \/ PeerChild(p) \/ PeerCopy(p) \/ PeerFinish(p)

SpecPeers == InitPeers /\ [][NextPeers]_vars

----------------------------------------------------------------------------
(* Properties *)

Failed(o) == (o.kind = "exit" /\ o.code # 0) \/ o.kind = "signal"

\* C1: in a deploy run, a child after the initial query that exits with a
\* non-zero code c (or ends without a code) is the last child invoked, and
\* the run has terminated with exit code c (1 without a code).
C1_DeployAbortsWithChildCode ==
    run.cmd = "deploy" =>
        \A i \in 2..Len(procs) :
            Failed(procs[i].out) =>
                /\ i = Len(procs)
                /\ pc = "done"
                /\ exitCode = (IF procs[i].out.kind = "exit" THEN procs[i].out.code ELSE 1)

\* set-upgrade-authority failed with 7: the run exited 7 after three children
C1_Witness ==
    /\ run.cmd = "deploy" /\ pc = "done" /\ exitCode = 7
    /\ Len(procs) = 3
    /\ procs[3].sub = "program set-upgrade-authority"
    /\ procs[3].out = [kind |-> "exit", code |-> 7]

\* C2: in a deploy run whose initial `program show` exits 0, no further
\* child is invoked, nothing is archived and the run terminates with 0.
C2_AlreadyDeployedShortCircuit ==
    (run.cmd = "deploy" /\ Len(procs) >= 1 /\ procs[1].out = [kind |-> "exit", code |-> 0]) =>
        /\ Len(procs) = 1
        /\ procs[1].sub = "program show"
        /\ pc = "done"
        /\ exitCode = 0
        /\ archive = run.archive0

C2_Witness ==
    /\ run.cmd = "deploy" /\ pc = "done" /\ exitCode = 0
    /\ Len(procs) = 1 /\ procs[1].out = [kind |-> "exit", code |-> 0]

AlreadyArchived == "Program artifacts already exist for this version."

\* C3: an upgrade run whose archive for the resolved version held
\* program.so or idl.json (either one) when it started invokes no child at
\* all and terminates with exit code 1; having passed the checks that come
\* before the guard, its error is the already-archived one.
C3_UpgradeAlreadyArchived ==
    (run.cmd = "upgrade" /\ ver # NoVersion
        /\ (run.archive0[ver].bin # 0 \/ run.archive0[ver].idl # 0)) =>
        /\ procs = << >>
        /\ pc \in {"paths", "network", "deployer", "mkdir", "guard", "done"}
        /\ (pc = "done" => exitCode = 1 /\ err # NoErr)
        /\ (pc = "done" /\ seen.mkdir = "yes" => err.msg = AlreadyArchived)

\* only idl.json was there, and the run stopped at the guard
C3_Witness ==
    /\ run.cmd = "upgrade" /\ pc = "done" /\ ver # NoVersion
    /\ run.archive0[ver].bin = 0 /\ run.archive0[ver].idl # 0
    /\ err.msg = AlreadyArchived /\ exitCode = 1 /\ procs = << >>

MissingAuthority == "Must set UPGRADE_AUTHORITY_KEYPAIR environment variable."

\* C4: an upgrade run reads UPGRADE_AUTHORITY_KEYPAIR before anything else;
\* without it the run has terminated with exit code 1, has invoked no
\* child and has left the archive, its directories and the temporary files
\* as they were.
C4_UpgradeNeedsAuthorityEnv ==
    (run.cmd = "upgrade" /\ seen.env # "yes") =>
        /\ procs = << >>
        /\ archive = run.archive0
        /\ archDir = run.archDir0
        /\ tmpFiles = run.tmp0
        /\ seen.discover = Unread /\ seen.bin = Unread /\ seen.net = Unread
        /\ (seen.env = "no" =>
                pc = "done" /\ exitCode = 1 /\ err.msg = MissingAuthority)

C4_Witness ==
    /\ run.cmd = "upgrade" /\ seen.env = "no" /\ pc = "done" /\ exitCode = 1
    /\ procs = << >> /\ \E v \in Versions : ~run.archDir0[v] /\ ~archDir[v]

\* C5: once an upgrade run has terminated, the temporary file of its buffer
\* keypair is no longer on disk.
C5_TempFileRemovedOnEveryExit ==
    (run.cmd = "upgrade" /\ pc = "done") => run.no \notin tmpFiles

\* C6: the anchor CLI is invoked only in a workspace whose root holds
\* Anchor.toml; without the marker the re-query is followed by the copy.
C6_AnchorOnlyWithMarker ==
    \A i \in 1..Len(procs) : procs[i].tool = "anchor" => seen.anchor = "yes"

\* C7: every solana invocation carries --url with the RPC URL of the
\* resolved network (the override of the config, else the default of the
\* network), and every anchor invocation --provider.cluster for that network.
C7_UrlFromResolvedNetwork ==
    \A i \in 1..Len(procs) :
        /\ procs[i].tool = "solana" =>
               procs[i].url = network_url(seen.cfgUrl, run.network)
        /\ procs[i].tool = "anchor" => procs[i].cluster = run.network

\* the children of an upgrade, in order
UpgradeOrder ==
    << <<"solana", "program show">>,
       <<"solana", "program write-buffer">>,
       <<"solana", "program set-buffer-authority">>,
       <<"solana", "program deploy --buffer">>,
       <<"solana", "program show">>,
       <<"anchor", "idl write-buffer">>,
       <<"cp", "bin">>,
       <<"cp", "idl">> >>

\* C8: the children of an upgrade run are a prefix of UpgradeOrder, each
\* one invoked only after all earlier ones exited 0; write-buffer,
\* set-buffer-authority and deploy --buffer name the buffer key generated
\* by this run, and deploy --buffer signs with UPGRADE_AUTHORITY_KEYPAIR.
C8_UpgradeOrder ==
    run.cmd = "upgrade" =>
        /\ Len(procs) <= Len(UpgradeOrder)
        /\ \A i \in 1..Len(procs) :
              /\ <<procs[i].tool, procs[i].sub>> = UpgradeOrder[i]
              /\ i < Len(procs) => procs[i].out = [kind |-> "exit", code |-> 0]
              /\ i \in 2..4 => procs[i].buffer = run.no
              /\ i = 4 => procs[i].keypair = "UPGRADE_AUTHORITY_KEYPAIR"
        /\ (Len(procs) >= 2 /\ pc # "done") => run.no \in tmpFiles

C8_Witness ==
    /\ run.cmd = "upgrade" /\ pc = "done" /\ exitCode = 0
    /\ Len(procs) = Len(UpgradeOrder)
    /\ procs[4].sub = "program deploy --buffer" /\ procs[4].buffer = procs[2].buffer

PathsGood == seen.bin = "yes" /\ seen.idl = "yes" /\ seen.id = "yes"

\* C9: load, and the preconditions of deploy and upgrade, check config
\* discovery, version, program paths, network entry, deployer key file and
\* identity key in this order: a check is made only after all earlier ones
\* were met, an unmet one ends the run with its error, a Workspace is
\* returned and a child invoked only when all were met. A network without
\* an entry in `networks` fails although it has default URLs.
C9_LoadOrder ==
    /\ ver # NoVersion => seen.discover = "ok"
    /\ seen.bin # Unread => ver # NoVersion
    /\ seen.net # Unread => PathsGood
    /\ seen.deployer # Unread => seen.net = "yes"
    /\ seen.keypair # Unread => seen.deployer = "yes"
    /\ (ws \/ procs # << >>) => seen.keypair = "yes"
    /\ (seen.discover \notin {Unread, "ok"}
         \/ (seen.discover = "ok" /\ pc = "done" /\ ver = NoVersion)
         \/ (seen.bin # Unread /\ ~PathsGood)
         \/ seen.net = "no" \/ seen.deployer = "no" \/ seen.keypair = "no") =>
            pc = "done" /\ err # NoErr /\ ~ws /\ procs = << >>
    /\ seen.net = "no" =>
            err.msg = "network not found" /\ url(run.network) # None

\* load of a network that has no entry in the config
C9_Witness ==
    /\ run.cmd = "load" /\ pc = "done" /\ ~ws
    /\ PathsGood /\ seen.net = "no" /\ seen.deployer = Unread
    /\ err.msg = "network not found"

PathLabel(p) ==
    CASE p = "bin" -> "Program bin path"
      [] p = "idl" -> "Program idl path"
      [] p = "id"  -> "Program id path"

MissingPaths == { p \in {"bin", "idl", "id"} : seen[p] = "no" }

\* C10: path resolution fails exactly when one of the binary, the IDL and
\* the identity key is absent, and its error names a path that is missing
\* (the one that is missing when there is only one); with all three there
\* the run goes on to the network lookup.
C10_ProgramPathsError ==
    /\ (seen.bin # Unread /\ MissingPaths # {}) =>
            /\ pc = "done" /\ seen.net = Unread /\ ~ws /\ procs = << >>
            /\ err.path \in MissingPaths
            /\ err.msg = PathLabel(err.path)
    /\ (seen.bin # Unread /\ MissingPaths = {} /\ seen.net = Unread) =>
            pc = "network" /\ err = NoErr

\* only the identity key is missing, and the error names it
C10_Witness ==
    /\ pc = "done" /\ seen.bin = "yes" /\ seen.idl = "yes" /\ seen.id = "no"
    /\ err = Error("Program id path", "id")

VersionCall == call.fn \in {"get_deploy_version", "main_deploy_version"}

\* the manifest of the program: programs/<program>/Cargo.toml, for
\* get_deploy_version the hyphenated path when that one is absent
ProgramManifest ==
    IF call.fn = "get_deploy_version" /\ call.m1.kind = "missing" THEN call.m2 ELSE call.m1

Declares(m, v) ==
    m.kind = "pkg" /\ m.version = <<v.major, v.minor, v.patch>>

\* C11: version resolution returns an explicit version unchanged and
\* without error whatever the manifests on disk are; without an explicit
\* version it returns the version the program's manifest declares, and
\* nothing else.
C11_VersionResolution ==
    VersionCall =>
        /\ call.explicit # NoVersion =>
               call.resolved = [ok |-> TRUE, version |-> call.explicit, err |-> NoErr]
        /\ (call.explicit = NoVersion /\ call.resolved.ok) =>
               Declares(ProgramManifest, call.resolved.version)
        /\ (call.explicit = NoVersion /\ \E v \in Versions : Declares(ProgramManifest, v)) =>
               call.resolved.ok /\ call.resolved.err = NoErr

\* an explicit 1.1.0 against a manifest that declares 1.0.0
C11_Witness ==
    /\ call.fn = "get_deploy_version"
    /\ call.explicit = [major |-> 1, minor |-> 1, patch |-> 0]
    /\ call.m1 = [kind |-> "pkg", version |-> <<1, 0, 0>>]
    /\ call.resolved.version = call.explicit

NoManifest(m) == m.kind = "missing"

ManifestNotFound ==
    call.resolved.err.msg = "Program Cargo.toml not found at paths"

\* C12: without an explicit version, resolution fails with
\* manifest-not-found if and only if neither manifest path exists, with
\* invalid-package when the manifest found has no package section, with
\* invalid-version when its version is not a semantic version; the
\* hyphenated path counts only when the first one is absent.
C12_VersionErrors ==
    (call.fn = "get_deploy_version" /\ call.explicit = NoVersion) =>
        /\ ManifestNotFound <=> (NoManifest(call.m1) /\ NoManifest(call.m2))
        /\ (~NoManifest(call.m1) /\ call.m1.kind = "nopkg") =>
               call.resolved.err.msg = "invalid package"
        /\ (~NoManifest(call.m1) /\ call.m1.kind = "pkg" /\ Len(call.m1.version) # 3) =>
               call.resolved.err.msg = "invalid version"
        /\ (~NoManifest(call.m1) /\ call.resolved.ok) =>
               Declares(call.m1, call.resolved.version)

Marked == { i \in 1..Len(call.chain) : call.chain[i] # "none" }

Nearest == CHOOSE i \in Marked : \A j \in Marked : i <= j

NotFound == "Cargo.toml and Fleet.toml not found"

\* C13: discover returns the configuration of the nearest directory with a
\* Fleet.toml and of no farther one; it fails with not-found exactly when
\* no directory of the chain has the file, and with the parse error of the
\* nearest Fleet.toml when that one does not deserialize; a failure at the
\* nearest Fleet.toml ends the walk there.
C13_DiscoverNearest ==
    call.fn = "discover" =>
        /\ (call.found.err.msg = NotFound) <=> (Marked = {})
        /\ Marked = {} => ~call.found.ok
        /\ Marked # {} =>
              /\ call.found.root = Nearest
              /\ call.found.ok <=> call.chain[Nearest] = "good"
              /\ call.chain[Nearest] = "bad" =>
                     call.found.err.msg = "Unable to deserialize config"

\* Fleet.toml in the working directory and in its parent: the nearer one wins
C13_Witness ==
    /\ call.fn = "discover" /\ Len(call.chain) = 2
    /\ call.chain[1] = "good" /\ call.chain[2] \in {"good", "bad"}
    /\ call.found.ok /\ call.found.root = 1

Archived(a) == a.bin # 0 \/ a.idl # 0

\* C14: a version that had program.so or idl.json in the archive when a
\* deploy or upgrade run started keeps both archive files as they were:
\* the run does not write them.
C14_NeverReArchived ==
    \A v \in Versions : Archived(run.archive0[v]) => archive[v] = run.archive0[v]

\* C16: a deploy or upgrade run that has terminated with a non-zero code
\* has left both archive files of its version as they were, one that has
\* terminated with 0 after a copy has left both present, and none has
\* written only one of the two.
C16_ArchiveAllOrNothing ==
    (run.cmd \in {"deploy", "upgrade"} /\ pc = "done" /\ ver # NoVersion) =>
        /\ exitCode # 0 => archive[ver] = run.archive0[ver]
        /\ (exitCode = 0 /\ \E i \in 1..Len(procs) : procs[i].tool = "cp") =>
               archive[ver].bin # 0 /\ archive[ver].idl # 0
        /\ (archive[ver].bin = run.archive0[ver].bin) <=> (archive[ver].idl = run.archive0[ver].idl)

\* C17: a deploy or upgrade run that finds the deployer key file missing
\* (everything checked before it being there) terminates with exit code 1
\* before any child is invoked, and its error names the deployer key path.
C17_DeployerErrorNamesDeployer ==
    (run.cmd \in {"deploy", "upgrade"} /\ seen.deployer = "no") =>
        /\ pc = "done" /\ exitCode = 1 /\ procs = << >>
        /\ PathsGood /\ seen.net = "yes"
        /\ err.path = "deployer"

\* C15: nothing but the archive files decides the guard of an upgrade run:
\* a run passes it exactly when neither file was there at that moment,
\* whatever the other run is doing, and invokes children only after that;
\* so two runs of one version can both pass it and both deploy and copy.
C15_GuardIsNoLock ==
    peers # NoPeers =>
        \A p \in Peers :
            /\ peers[p].checked =>
                  ((peers[p].err.msg # AlreadyArchived) <=> (peers[p].saw = NoFile))
            /\ peers[p].procs # << >> => (peers[p].checked /\ peers[p].saw = NoFile)
            /\ (peers[p].pc = "guard" /\ archive[ver] = NoFile) => ENABLED PeerGuard(p)

\* both runs passed the guard, finalized their buffer and copied
C15_Witness ==
    /\ peers # NoPeers
    /\ \A p \in Peers :
          /\ peers[p].pc = "done" /\ peers[p].exitCode = 0
          /\ peers[p].checked /\ peers[p].saw = NoFile
          /\ Len(peers[p].procs) = Len(UpgradeOrder)
          /\ peers[p].procs[4].sub = "program deploy --buffer"
          /\ peers[p].procs[8].tool = "cp"
    /\ archive[ver].bin # 0 /\ archive[ver].idl # 0

====
